---- MODULE Spec2Model ----
(***************************************************************************)
(* A model of src/trie.py: class Trie, a prefix tree of words with         *)
(* frequencies, with insert, find, __contains__, __iter__, autocomplete,   *)
(* autocorrect, filter and match.                                          *)
(*                                                                         *)
(* A Python string is a sequence of one-character strings: "ab" is         *)
(* <<"a", "b">> and '' is <<>>.  A Trie object is named by the path of     *)
(* edge labels leading to it from the root object, so the root is <<>>.    *)
(* The attributes of all Trie objects are held in two functions over the   *)
(* set of existing objects: frequency[p] is self.frequency of the object   *)
(* at path p and children[p] is the list of keys of its self.children      *)
(* dict, in insertion order (the iteration order of a Python dict); the    *)
(* value stored under key c of the object at p is the object at            *)
(* Append(p, c).                                                           *)
(*                                                                         *)
(* The comparisons "x is ''", "c is '*'", "c is '?'" and "w[0] is c" of    *)
(* the source compare object identities.  CPython has one empty string     *)
(* object, and indexing or iterating a string and the constants '*' and    *)
(* '?' give its one object per one-character string, so these are          *)
(* modelled as equality.  The comparison "word is not prefix" of           *)
(* autocorrect compares a word of __iter__ with the caller's string: for   *)
(* non-empty strings its outcome depends on the objects, not on the        *)
(* values, and is modelled as a choice (see IdentityOutcomes).             *)
(***************************************************************************)
EXTENDS Integers, Sequences, FiniteSets, TLC

VARIABLES
  children,   \* children[p]: keys of self.children of the object at path p, in insertion order
  frequency,  \* frequency[p]: self.frequency of the object at path p
  calls,      \* history: calls[w] lists the frequency arguments of the insert(w, ...) calls made, in order
  op,         \* the query whose return value the caller holds, "idle" if none
  args,       \* the arguments of that query
  ret         \* its return value

vars == <<children, frequency, calls, op, args, ret>>

(***************************************************************************)
(* Bounds and input sets.                                                  *)
(***************************************************************************)
MaxInserts == 2
MaxN == 2

\* The letters words are made of, a part of the alphabet of the source.
Letters == {"a", "b"}

\* The words insert, find and "in" are called with.
Words == {<<>>, <<"a">>, <<"b">>, <<"a", "b">>, <<"b", "a">>, <<"a", "a">>, <<"b", "b">>}

\* The prefixes autocomplete and autocorrect are called with: the words, and one
\* longer than every word.
Prefixes == Words \cup {<<"a", "b", "a">>}

\* insert's frequency argument: None (the default) is <<>>, a value f is <<f>>.
None == <<>>
FreqArgs == {None, <<-1>>, <<0>>, <<2>>}

\* The N of autocomplete and autocorrect.
Ns == -1 .. MaxN

\* The patterns of filter: letters, "*" and "?".
PatternChars == Letters \cup {"*", "?"}
Patterns == {<<>>} \cup {<<c>> : c \in PatternChars}
              \cup {<<c, d>> : c \in PatternChars, d \in PatternChars}
              \cup {<<"*", "a", "*">>, <<"a", "*", "b">>, <<"?", "*", "?">>, <<"*", "*", "b">>}

\* 'abcdefghijklmnopqrstuvwxyz' of autocorrect and match.
alphabet == {"a", "b", "c", "d", "e", "f", "g", "h", "i", "j", "k", "l", "m",
             "n", "o", "p", "q", "r", "s", "t", "u", "v", "w", "x", "y", "z"}

\* The trie as one value: what the operators below read and return.
trie == [children |-> children, frequency |-> frequency]

\* The root Trie object.
root == <<>>

(***************************************************************************)
(* Trie.__init__ : a new object has frequency 0 and no children.           *)
(***************************************************************************)
NewNode(t, p) ==
  [children |-> (p :> <<>>) @@ t.children,
   frequency |-> (p :> 0) @@ t.frequency]

\* HasChild as it would be if insert made a new child object on every visit.
HasChildNever(t, self, letter) == FALSE

\* self.children.get(letter) is not None
HasChild(t, self, letter) == \E i \in 1 .. Len(t.children[self]) : t.children[self][i] = letter

\* insert as it would be if a supplied frequency were added, not assigned.
RECURSIVE insertAdding(_, _, _, _)
insertAdding(t, self, word, freq) ==
  IF word = <<>>
  THEN [t EXCEPT !.frequency[self] = @ + (IF freq = None THEN 1 ELSE freq[1])]
  ELSE LET letter == Head(word)
           child == Append(self, letter)
           t1 == IF ~HasChild(t, self, letter)
                 THEN LET n == NewNode(t, child)
                      IN [n EXCEPT !.children[self] = Append(@, letter)]
                 ELSE t
       IN insertAdding(t1, child, Tail(word), freq)

\* insert as it would be if the frequency-less increment were made at every
\* object on the way down, not only at the last.
RECURSIVE insertCountingPath(_, _, _, _)
insertCountingPath(t, self, word, freq) ==
  LET t0 == IF freq = None
            THEN [t EXCEPT !.frequency[self] = @ + 1]
            ELSE IF word = <<>> THEN [t EXCEPT !.frequency[self] = freq[1]] ELSE t
  IN IF word = <<>>
     THEN t0
     ELSE LET letter == Head(word)
              child == Append(self, letter)
              t1 == IF ~HasChild(t0, self, letter)
                    THEN LET n == NewNode(t0, child)
                         IN [n EXCEPT !.children[self] = Append(@, letter)]
                    ELSE t0
          IN insertCountingPath(t1, child, Tail(word), freq)

(***************************************************************************)
(* Trie.insert(word, frequency=None)                                       *)
(***************************************************************************)
RECURSIVE insert(_, _, _, _)
insert(t, self, word, freq) ==
  IF word = <<>>
  THEN IF freq = None
       THEN [t EXCEPT !.frequency[self] = @ + 1]
       ELSE [t EXCEPT !.frequency[self] = freq[1]]
  ELSE LET letter == Head(word)
           child == Append(self, letter)
           t1 == IF ~HasChild(t, self, letter)
                 THEN LET n == NewNode(t, child)
                      IN [n EXCEPT !.children[self] = Append(@, letter)]
                 ELSE t
       IN insert(t1, child, Tail(word), freq)

(***************************************************************************)
(* Trie.find(prefix): the object reached, as <<path>>, or <<>> for None.   *)
(***************************************************************************)
RECURSIVE find(_, _, _)
find(t, self, prefix) ==
  IF prefix = <<>>
  THEN <<self>>
  ELSE IF ~HasChild(t, self, Head(prefix))
       THEN <<>>
       ELSE find(t, Append(self, Head(prefix)), Tail(prefix))

(***************************************************************************)
(* Trie.__contains__(word)                                                 *)
(***************************************************************************)
contains(t, word) ==
  LET answer == find(t, root, word)
  IN IF answer = <<>>
     THEN FALSE
     ELSE IF t.frequency[answer[1]] = 0 THEN FALSE ELSE TRUE

\* __iter__ as it would be if the object's own word were yielded after those
\* of its children.
RECURSIVE iterOwnLast(_, _)
RECURSIVE iterChildrenOwnLast(_, _, _)
iterOwnLast(t, self) ==
  iterChildrenOwnLast(t, self, t.children[self])
    \o (IF t.frequency[self] > 0 THEN << <<<<>>, t.frequency[self]>> >> ELSE <<>>)

iterChildrenOwnLast(t, self, letters) ==
  IF letters = <<>>
  THEN <<>>
  ELSE LET letter == Head(letters)
           sub == iterOwnLast(t, Append(self, letter))
       IN [i \in 1 .. Len(sub) |-> <<<<letter>> \o sub[i][1], sub[i][2]>>]
            \o iterChildrenOwnLast(t, self, Tail(letters))

(***************************************************************************)
(* Trie.__iter__ : the list of <<word, freq>> the generator yields.        *)
(***************************************************************************)
RECURSIVE iter(_, _)
RECURSIVE iterChildren(_, _, _)
iter(t, self) ==
  (IF t.frequency[self] > 0 THEN << <<<<>>, t.frequency[self]>> >> ELSE <<>>)
    \o iterChildren(t, self, t.children[self])

\* "for letter in self.children: for word,freq in self.children[letter]: yield"
iterChildren(t, self, letters) ==
  IF letters = <<>>
  THEN <<>>
  ELSE LET letter == Head(letters)
           sub == iter(t, Append(self, letter))
       IN [i \in 1 .. Len(sub) |-> <<<<letter>> \o sub[i][1], sub[i][2]>>]
            \o iterChildren(t, self, Tail(letters))

\* The sort as it would be if equal keys were put in reverse order.
RECURSIVE InsertSortedBeforeEqual(_, _)
InsertSortedBeforeEqual(sorted, x) ==
  IF sorted = <<>>
  THEN <<x>>
  ELSE IF Head(sorted)[2] < x[2]
       THEN <<Head(sorted)>> \o InsertSortedBeforeEqual(Tail(sorted), x)
       ELSE <<x>> \o sorted

(***************************************************************************)
(* list.sort(key=lambda tup : tup[1]): ascending by frequency and stable   *)
(* (equal keys keep their order).  Each element is put after the elements  *)
(* already placed whose key is not greater than its own.                   *)
(***************************************************************************)
RECURSIVE InsertSorted(_, _)
InsertSorted(sorted, x) ==
  IF sorted = <<>>
  THEN <<x>>
  ELSE IF Head(sorted)[2] <= x[2]
       THEN <<Head(sorted)>> \o InsertSorted(Tail(sorted), x)
       ELSE <<x>> \o sorted

RECURSIVE SortByFreq(_)
SortByFreq(pairs) ==
  IF pairs = <<>>
  THEN <<>>
  ELSE InsertSorted(SortByFreq(SubSeq(pairs, 1, Len(pairs) - 1)), pairs[Len(pairs)])

\* "x in list"
InList(x, list) == \E i \in 1 .. Len(list) : list[i] = x

(***************************************************************************)
(* Trie.autocomplete(prefix, N)                                            *)
(***************************************************************************)
\* The loop of autocomplete as it would be with pairs.pop(0): the first pair,
\* of the lowest frequency, is taken.
RECURSIVE autocompleteLoopFromFront(_, _, _, _, _)
autocompleteLoopFromFront(pairs, mostFrequent, count, prefix, N) ==
  IF count < N /\ Len(pairs) > 0
  THEN autocompleteLoopFromFront(Tail(pairs),
                                 Append(mostFrequent, prefix \o Head(pairs)[1]),
                                 count + 1, prefix, N)
  ELSE mostFrequent

\* "while count < N and len(pairs) > 0": pop the last pair, append prefix + its word.
RECURSIVE autocompleteLoop(_, _, _, _, _)
autocompleteLoop(pairs, mostFrequent, count, prefix, N) ==
  IF count < N /\ Len(pairs) > 0
  THEN LET best == pairs[Len(pairs)]
       IN autocompleteLoop(SubSeq(pairs, 1, Len(pairs) - 1),
                           Append(mostFrequent, prefix \o best[1]),
                           count + 1, prefix, N)
  ELSE mostFrequent

autocomplete(t, prefix, N) ==
  LET prefixNode == find(t, root, prefix)
  IN IF prefixNode = <<>>
     THEN <<>>
     ELSE autocompleteLoop(SortByFreq(iter(t, prefixNode[1])), <<>>, 0, prefix, N)

(***************************************************************************)
(* Trie.autocorrect(prefix, N)                                             *)
(***************************************************************************)
\* prefix[i:j] of Python, for 0 <= i and any j.
Slice(s, i, j) == SubSeq(s, i + 1, IF j > Len(s) THEN Len(s) ELSE j)

\* What "for index in range(len(prefix)+1)" appends to validEdits for one
\* index (only "word in validEdits" reads the list, so it is held as a set).
editsAt(prefix, index, validWords) ==
  LET n == Len(prefix)
      head == Slice(prefix, 0, index)
      insertionEdit == LET tail == Slice(prefix, index, n)
                       IN {head \o <<letter>> \o tail : letter \in alphabet}
      replaceEdit == IF index < n
                     THEN LET tail == Slice(prefix, index + 1, n)
                          IN {head \o <<letter>> \o tail : letter \in alphabet}
                     ELSE {}
      deletionEdit == IF index < n
                      THEN {head \o Slice(prefix, index + 1, n)}
                      ELSE {}
      transposeEdit == IF index < n - 1
                       THEN {head \o <<prefix[index + 2], prefix[index + 1]>>
                               \o Slice(prefix, index + 2, n)}
                       ELSE {}
  IN {e \in insertionEdit \cup replaceEdit \cup deletionEdit \cup transposeEdit :
        InList(e, validWords)}

validEdits(prefix, validWords) ==
  UNION {editsAt(prefix, index, validWords) : index \in 0 .. Len(prefix)}

\* The outcomes of "word is prefix" when word equals prefix.  There is one ''
\* object; for longer strings the word of __iter__ is a dict key or a fresh
\* object made by letter+word, and whether it is the caller's object depends on
\* the interpreter and on how the caller made its string.
IdentityOutcomes(prefix) ==
  IF Len(prefix) = 0 THEN {TRUE} ELSE BOOLEAN

\* "word is not prefix", same: the outcome of the identity test for equal values.
IsNot(word, prefix, same) == IF word = prefix THEN ~same ELSE TRUE

\* The loop of autocorrect as it would be without "if best[0] not in mostFrequent".
RECURSIVE autocorrectLoopNoCheck(_, _, _, _)
autocorrectLoopNoCheck(validNodes, mostFrequent, count, numNeeded) ==
  IF count < numNeeded /\ Len(validNodes) > 0
  THEN autocorrectLoopNoCheck(SubSeq(validNodes, 1, Len(validNodes) - 1),
                              Append(mostFrequent, validNodes[Len(validNodes)][1]),
                              count + 1, numNeeded)
  ELSE mostFrequent

\* "while count < numNeeded and len(validNodes) > 0"
RECURSIVE autocorrectLoop(_, _, _, _)
autocorrectLoop(validNodes, mostFrequent, count, numNeeded) ==
  IF count < numNeeded /\ Len(validNodes) > 0
  THEN LET best == validNodes[Len(validNodes)]
           rest == SubSeq(validNodes, 1, Len(validNodes) - 1)
       IN autocorrectLoop(rest,
                          IF ~InList(best[1], mostFrequent)
                          THEN Append(mostFrequent, best[1])
                          ELSE mostFrequent,
                          count + 1, numNeeded)
  ELSE mostFrequent

autocorrect(t, prefix, N, same) ==
  LET mostFrequent == autocomplete(t, prefix, N)
  IN IF Len(mostFrequent) = N
     THEN mostFrequent
     ELSE LET numNeeded == N - Len(mostFrequent)
              allNodes == iter(t, root)
              validWords == SelectSeq([i \in 1 .. Len(allNodes) |-> allNodes[i]],
                                      LAMBDA p : p[2] > 0)
              words == [i \in 1 .. Len(validWords) |-> validWords[i][1]]
              edits == validEdits(prefix, words)
              validNodes == SelectSeq(allNodes,
                              LAMBDA p : IsNot(p[1], prefix, same) /\ p[1] \in edits)
          IN autocorrectLoop(SortByFreq(validNodes), mostFrequent, 0, numNeeded)

\* match as it would be with range(1, len(remainingWord)+1): "*" takes at
\* least one character.
RECURSIVE matchStarNonEmpty(_, _)
matchStarNonEmpty(remainingPattern, remainingWord) ==
  IF remainingPattern = <<>>
  THEN remainingWord = <<>>
  ELSE IF remainingWord = <<>>
  THEN \A i \in 1 .. Len(remainingPattern) : remainingPattern[i] = "*"
  ELSE LET nextChar == remainingPattern[1]
       IN IF nextChar \in alphabet
          THEN IF remainingWord[1] = nextChar
               THEN matchStarNonEmpty(Tail(remainingPattern), Tail(remainingWord))
               ELSE FALSE
          ELSE IF nextChar = "*"
          THEN \E endIndex \in 1 .. Len(remainingWord) :
                 matchStarNonEmpty(Tail(remainingPattern),
                                   SubSeq(remainingWord, endIndex + 1, Len(remainingWord)))
          ELSE IF nextChar = "?"
          THEN matchStarNonEmpty(Tail(remainingPattern), Tail(remainingWord))
          ELSE FALSE

(***************************************************************************)
(* Trie.match(remainingPattern, remainingWord)                             *)
(***************************************************************************)
RECURSIVE match(_, _)
match(remainingPattern, remainingWord) ==
  IF remainingPattern = <<>>
  THEN remainingWord = <<>>
  ELSE IF remainingWord = <<>>
  THEN \A i \in 1 .. Len(remainingPattern) : remainingPattern[i] = "*"
  ELSE LET nextChar == remainingPattern[1]
       IN IF nextChar \in alphabet
          THEN IF remainingWord[1] = nextChar
               THEN match(Tail(remainingPattern), Tail(remainingWord))
               ELSE FALSE
          ELSE IF nextChar = "*"
          THEN \E endIndex \in 0 .. Len(remainingWord) :
                 match(Tail(remainingPattern),
                       SubSeq(remainingWord, endIndex + 1, Len(remainingWord)))
          ELSE IF nextChar = "?"
          THEN match(Tail(remainingPattern), Tail(remainingWord))
          ELSE FALSE   \* no branch returns: None, which both callers take as no match

(***************************************************************************)
(* Trie.filter(pattern)                                                    *)
(***************************************************************************)
filter(t, pattern) ==
  SelectSeq(iter(t, root), LAMBDA p : match(pattern, p[1]))

(***************************************************************************)
(* The state machine.  The class is used from one thread (it has no        *)
(* locking and no blocking call): a caller makes one call at a time.       *)
(* insert returns nothing; a query returns a value, which the caller holds *)
(* (op, args, ret) until it takes it (Return) and makes its next call.     *)
(***************************************************************************)
\* The number of insert calls made so far.
NumInserts == Cardinality(UNION {{<<w, i>> : i \in 1 .. Len(calls[w])} : w \in Words})

Init ==
  /\ children = (root :> <<>>)
  /\ frequency = (root :> 0)
  /\ calls = [w \in Words |-> <<>>]
  /\ op = "idle"
  /\ args = <<>>
  /\ ret = <<>>

\* A call of insert(word) or insert(word, f) on the root.
Insert ==
  \E word \in Words, freq \in FreqArgs :
    /\ op = "idle"
    /\ NumInserts < MaxInserts
    /\ LET t == insert(trie, root, word, freq)
       IN /\ children' = t.children
          /\ frequency' = t.frequency
    /\ calls' = [calls EXCEPT ![word] = Append(@, freq)]
    /\ UNCHANGED <<op, args, ret>>

\* A call of find(prefix) on the root.
Find ==
  \E prefix \in Words :
    /\ op = "idle"
    /\ op' = "find"
    /\ args' = <<prefix>>
    /\ ret' = find(trie, root, prefix)
    /\ UNCHANGED <<children, frequency, calls>>

\* A call of "word in trie".
Contains ==
  \E word \in Words :
    /\ op = "idle"
    /\ op' = "contains"
    /\ args' = <<word>>
    /\ ret' = contains(trie, word)
    /\ UNCHANGED <<children, frequency, calls>>

\* A call of list(trie).
Enumerate ==
  /\ op = "idle"
  /\ op' = "iter"
  /\ args' = <<>>
  /\ ret' = iter(trie, root)
  /\ UNCHANGED <<children, frequency, calls>>

\* A call of autocomplete(prefix, N).
Autocomplete ==
  \E prefix \in Prefixes, N \in Ns :
    /\ op = "idle"
    /\ op' = "autocomplete"
    /\ args' = <<prefix, N>>
    /\ ret' = autocomplete(trie, prefix, N)
    /\ UNCHANGED <<children, frequency, calls>>

\* A call of autocorrect(prefix, N).
Autocorrect ==
  \E prefix \in Prefixes, N \in Ns :
    \E same \in IdentityOutcomes(prefix) :
      /\ op = "idle"
      /\ op' = "autocorrect"
      /\ args' = <<prefix, N>>
      /\ ret' = autocorrect(trie, prefix, N, same)
      /\ UNCHANGED <<children, frequency, calls>>

\* A call of filter(pattern).
Filter ==
  \E pattern \in Patterns :
    /\ op = "idle"
    /\ op' = "filter"
    /\ args' = <<pattern>>
    /\ ret' = filter(trie, pattern)
    /\ UNCHANGED <<children, frequency, calls>>

\* The caller takes the return value.
Return ==
  /\ op # "idle"
  /\ op' = "idle"
  /\ args' = <<>>
  /\ ret' = <<>>
  /\ UNCHANGED <<children, frequency, calls>>

Next ==
  \/ Insert
  \/ Find
  \/ Contains
  \/ Enumerate
  \/ Autocomplete
  \/ Autocorrect
  \/ Filter
  \/ Return

Spec == Init /\ [][Next]_vars

(***************************************************************************)
(* What the claims speak of.                                               *)
(***************************************************************************)
\* The objects that exist, by path.
Nodes == DOMAIN frequency

\* p is a leading part of w.
IsPrefix(p, w) == Len(p) <= Len(w) /\ SubSeq(w, 1, Len(p)) = p

\* w is a stored word: its object exists and has a frequency above 0.
Stored(w) == w \in Nodes /\ frequency[w] > 0

\* The insert calls made with word w, by their place among them, and those
\* that supplied a frequency.  A word outside Words was never inserted.
InsertsOf(w) == IF w \in Words THEN 1 .. Len(calls[w]) ELSE {}
ExplicitOf(w) == {i \in InsertsOf(w) : calls[w][i] # None}

\* For a list h of frequency arguments: the last explicitly supplied frequency,
\* 0 if none, plus the number of frequency-less arguments after it.
RECURSIVE LastExplicitPlusIncrements(_)
LastExplicitPlusIncrements(h) ==
  IF h = <<>> THEN 0
  ELSE IF h[Len(h)] = None
       THEN LastExplicitPlusIncrements(SubSeq(h, 1, Len(h) - 1)) + 1
       ELSE h[Len(h)][1]

\* The elements of a list.
Elems(list) == {list[i] : i \in 1 .. Len(list)}
NoDuplicates(list) == \A i, j \in 1 .. Len(list) : i # j => list[i] # list[j]
Max0(n) == IF n > 0 THEN n ELSE 0

C4_PositiveIffInserted ==
  \A p \in Nodes : frequency[p] > 0 <=> InsertsOf(p) # {}

(***************************************************************************)
(* C4 as amended: the object at P has a frequency other than 0 only if P   *)
(* was the word of an insert call (an object that is only a proper prefix  *)
(* of inserted words has frequency 0), and it has frequency > 0 whenever P *)
(* was inserted and no insert of P supplied a frequency <= 0.              *)
(***************************************************************************)
C4_NonZeroOnlyIfInserted ==
  \A p \in Nodes :
    /\ frequency[p] # 0 => InsertsOf(p) # {}
    /\ (InsertsOf(p) # {} /\ \A i \in ExplicitOf(p) : calls[p][i][1] > 0)
         => frequency[p] > 0

\* A word was inserted below an object that was never inserted itself.
C4_Witness ==
  \E p \in Nodes, w \in Nodes :
    /\ p # w /\ IsPrefix(p, w)
    /\ InsertsOf(p) = {} /\ frequency[p] = 0
    /\ InsertsOf(w) # {} /\ frequency[w] > 0

(***************************************************************************)
(* C3 as claimed: contains(word) is true if and only if find(word) reaches *)
(* an object whose frequency is strictly positive, that is, exactly for    *)
(* the words enumerate() yields.                                           *)
(***************************************************************************)
C3_ContainsIffPositive ==
  op = "contains" =>
    LET word == args[1]
    IN /\ ret <=> (find(trie, root, word) # <<>> /\ frequency[word] > 0)
       /\ ret <=> (\E i \in 1 .. Len(iter(trie, root)) : iter(trie, root)[i][1] = word)

(***************************************************************************)
(* C10: an insert of W changes the frequency of the object at W only,      *)
(* removes no object and no dict key, and creates objects only at prefixes *)
(* of W that did not exist; every query leaves all objects as they were.   *)
(***************************************************************************)
C10_Frame ==
  /\ Nodes \subseteq DOMAIN frequency'
  /\ DOMAIN children' = DOMAIN frequency'
  /\ \A p \in Nodes :
       /\ Len(children[p]) <= Len(children'[p])
       /\ SubSeq(children'[p], 1, Len(children[p])) = children[p]
  /\ calls' # calls =>
       LET W == CHOOSE w \in Words : calls'[w] # calls[w]
       IN /\ \A p \in Nodes : p # W => frequency'[p] = frequency[p]
          /\ \A p \in DOMAIN frequency' \ Nodes :
               /\ IsPrefix(p, W)
               /\ p # W => frequency'[p] = 0
  /\ calls' = calls => (frequency' = frequency /\ children' = children)

C10_InsertChangesOnlyItsWord == [][C10_Frame]_vars

\* "a" and "ab" were inserted, each kept its frequency, and a query has returned.
C10_Witness ==
  /\ calls[<<"a">>] = <<<<2>>>>
  /\ calls[<<"a", "b">>] = <<None>>
  /\ frequency[<<"a">>] = 2
  /\ frequency[<<"a", "b">>] = 1
  /\ op = "autocorrect"

(***************************************************************************)
(* C5: autocomplete(prefix, N) returns at most max(N, 0) words, each       *)
(* starting with prefix and stored, in non-increasing order of frequency,  *)
(* and returns the empty list when prefix has no object or N <= 0.         *)
(***************************************************************************)
C5_AutocompleteBoundedSortedStored ==
  op = "autocomplete" =>
    LET prefix == args[1]
        N == args[2]
    IN /\ Len(ret) <= Max0(N)
       /\ \A i \in 1 .. Len(ret) : IsPrefix(prefix, ret[i]) /\ Stored(ret[i])
       /\ \A i, j \in 1 .. Len(ret) : i < j => frequency[ret[i]] >= frequency[ret[j]]
       /\ (prefix \notin Nodes \/ N <= 0) => ret = <<>>

\* Two words of different frequencies were returned.
C5_Witness ==
  /\ op = "autocomplete"
  /\ Len(ret) = 2
  /\ frequency[ret[1]] > frequency[ret[2]]

(***************************************************************************)
(* C9: when two stored words under prefix have the same frequency, the one *)
(* enumerate() yields later is returned before the other, and when only    *)
(* one of them is returned it is the later one.                            *)
(***************************************************************************)
C9_TieGoesToLaterEnumerated ==
  (op = "autocomplete" /\ args[1] \in Nodes) =>
    LET prefix == args[1]
        E == iter(trie, prefix)
    IN \A i, j \in 1 .. Len(E) :
         (i < j /\ E[i][2] = E[j][2] /\ InList(prefix \o E[i][1], ret)) =>
           \E k, l \in 1 .. Len(ret) :
             /\ k < l
             /\ ret[k] = prefix \o E[j][1]
             /\ ret[l] = prefix \o E[i][1]

\* Two words tie, N is 1, and the later enumerated one is the one returned.
C9_Witness ==
  /\ op = "autocomplete"
  /\ args[1] \in Nodes
  /\ args[2] = 1
  /\ LET E == iter(trie, args[1])
     IN /\ Len(E) = 2
        /\ E[1][2] = E[2][2]
        /\ ret = <<args[1] \o E[2][1]>>

\* W was inserted exactly once, with no explicit frequency.
InsertedOnceNoFrequency(w) ==
  Cardinality(InsertsOf(w)) = 1 /\ ExplicitOf(w) = {}

(***************************************************************************)
(* C2 as claimed: for W inserted exactly once with no explicit frequency,  *)
(* autocomplete(W, 1) returns [W].                                         *)
(***************************************************************************)
C2_AutocompleteReturnsTheWord ==
  (op = "autocomplete" /\ args[2] = 1 /\ InsertedOnceNoFrequency(args[1])) =>
    ret = <<args[1]>>

(***************************************************************************)
(* C2 as amended: for W inserted exactly once with no explicit frequency,  *)
(* autocomplete(W, 1) returns one stored word that starts with W; it is    *)
(* [W] exactly when no other stored word starts with W.                    *)
(***************************************************************************)
C2_AutocompleteReturnsWordOrExtension ==
  (op = "autocomplete" /\ args[2] = 1 /\ InsertedOnceNoFrequency(args[1])) =>
    LET W == args[1]
    IN /\ Len(ret) = 1
       /\ IsPrefix(W, ret[1]) /\ Stored(ret[1])
       /\ ret = <<W>> <=> ~ \E v \in Nodes : v # W /\ IsPrefix(W, v) /\ Stored(v)

\* W was inserted once, another word is stored too, and autocomplete(W, 1) is [W].
C2_Witness ==
  /\ op = "autocomplete"
  /\ args[2] = 1
  /\ InsertedOnceNoFrequency(args[1])
  /\ ret = <<args[1]>>
  /\ \E v \in Nodes : v # args[1] /\ Stored(v)

(***************************************************************************)
(* C6: autocorrect(prefix, N) returns at least as many words as            *)
(* autocomplete(prefix, N), at most max(N, 0), no word twice, and prefix   *)
(* itself only if autocomplete(prefix, N) returns it.                      *)
(***************************************************************************)
C6_AutocorrectExtendsAutocomplete ==
  op = "autocorrect" =>
    LET prefix == args[1]
        N == args[2]
        completions == autocomplete(trie, prefix, N)
    IN /\ Len(ret) >= Len(completions)
       /\ Len(ret) <= Max0(N)
       /\ NoDuplicates(ret)
       /\ InList(prefix, ret) => InList(prefix, completions)

\* autocorrect added a correction to a completion that is also an edit of prefix.
C6_Witness ==
  /\ op = "autocorrect"
  /\ LET completions == autocomplete(trie, args[1], args[2])
     IN /\ Len(completions) = 1
        /\ Len(completions[1]) = Len(args[1]) + 1
        /\ Len(ret) = 2

(***************************************************************************)
(* The single edits of the claims, stated on the two words.                *)
(***************************************************************************)
\* s without its i-th character.
Without(s, i) == SubSeq(s, 1, i - 1) \o SubSeq(s, i + 1, Len(s))

\* w is one insertion, substitution, deletion or adjacent transposition away
\* from p, and is not p.
OneEditAway(p, w) ==
  /\ w # p
  /\ \/ Len(w) = Len(p) + 1 /\ \E i \in 1 .. Len(w) : Without(w, i) = p
     \/ Len(w) = Len(p) /\ \E i \in 1 .. Len(p) : \A j \in 1 .. Len(p) : j # i => w[j] = p[j]
     \/ Len(w) = Len(p) - 1 /\ \E i \in 1 .. Len(p) : Without(p, i) = w
     \/ Len(w) = Len(p) /\ \E i \in 1 .. Len(p) - 1 :
          /\ w[i] = p[i + 1] /\ w[i + 1] = p[i]
          /\ \A j \in 1 .. Len(p) : j \notin {i, i + 1} => w[j] = p[j]

\* The stored words one edit away from prefix.
Corrections(prefix) == {w \in Nodes : Stored(w) /\ OneEditAway(prefix, w)}

(***************************************************************************)
(* C1 as claimed: when autocomplete(prefix, N) yields fewer than N words   *)
(* (N >= 1), autocorrect(prefix, N) returns them followed by stored words  *)
(* one edit away from prefix, highest frequency first, none twice, until   *)
(* the list has N words or no unused correction remains.  It is stated    *)
(* for the calls whose prefix is not a stored word, where the outcome of   *)
(* "word is not prefix" plays no part.                                     *)
(***************************************************************************)
C1_AutocorrectFillsUpToN ==
  (op = "autocorrect" /\ args[2] >= 1 /\ ~Stored(args[1])
     /\ Len(autocomplete(trie, args[1], args[2])) < args[2]) =>
    LET prefix == args[1]
        N == args[2]
        completions == autocomplete(trie, prefix, N)
        added == SubSeq(ret, Len(completions) + 1, Len(ret))
    IN /\ Len(ret) >= Len(completions)
       /\ SubSeq(ret, 1, Len(completions)) = completions
       /\ Len(ret) <= N
       /\ NoDuplicates(ret)
       /\ \A i \in 1 .. Len(added) : added[i] \in Corrections(prefix)
       /\ \A i, j \in 1 .. Len(added) : i < j => frequency[added[i]] >= frequency[added[j]]
       /\ \A w \in Corrections(prefix) \ Elems(ret) :
            /\ Len(ret) = N
            /\ \A i \in 1 .. Len(added) : frequency[added[i]] >= frequency[w]

(***************************************************************************)
(* The patterns of the claims, stated on the pattern and the word: each    *)
(* pattern character takes a run of the word, a letter takes itself, "?"   *)
(* one character, "*" any run, and the runs make up the word in order.     *)
(***************************************************************************)
Matches(pattern, word) ==
  \E cut \in [0 .. Len(pattern) -> 0 .. Len(word)] :
    /\ cut[0] = 0
    /\ cut[Len(pattern)] = Len(word)
    /\ \A i \in 1 .. Len(pattern) :
         IF pattern[i] = "*"
         THEN cut[i] >= cut[i - 1]
         ELSE /\ cut[i] = cut[i - 1] + 1
              /\ pattern[i] = "?" \/ word[cut[i]] = pattern[i]

(***************************************************************************)
(* C8: filter(pattern) returns exactly the stored <<word, frequency>>      *)
(* pairs whose word matches the pattern, each once; filter("*") returns    *)
(* every stored word, and filter(W) for a W without wildcards returns      *)
(* [[W, freq]] if W is stored and [] otherwise.                            *)
(***************************************************************************)
C8_FilterReturnsTheMatches ==
  op = "filter" =>
    LET pattern == args[1]
    IN /\ Elems(ret) = {<<w, frequency[w]>> : w \in {v \in Nodes : Stored(v) /\ Matches(pattern, v)}}
       /\ NoDuplicates(ret)
       /\ pattern = <<"*">> => {ret[i][1] : i \in 1 .. Len(ret)} = {w \in Nodes : Stored(w)}
       /\ (\A i \in 1 .. Len(pattern) : pattern[i] \in Letters) =>
            ret = IF Stored(pattern) THEN <<<<pattern, frequency[pattern]>>>> ELSE <<>>

\* A pattern with "*" and a letter kept one stored word and dropped another.
C8_Witness ==
  /\ op = "filter"
  /\ Len(args[1]) = 2
  /\ \E i \in 1 .. 2 : args[1][i] = "*"
  /\ \E i \in 1 .. 2 : args[1][i] \in Letters
  /\ Len(ret) = 1
  /\ Len(iter(trie, root)) = 2
====
